---- MODULE Spec2Model ----
(***************************************************************************)
(* Landing gear control system: the GearLeg state machine (main.py) and    *)
(* the LandingGearController that dispatches commands and time steps to    *)
(* its three legs under the interlock policy of the Config                 *)
(* (config_loader.py).                                                     *)
(*                                                                         *)
(* Time is counted in whole units of 0.5 s, the step of the cockpit loop:   *)
(* deploy_time_s, retract_time_s, timer_s and dt_s are numbers of units.   *)
(***************************************************************************)
EXTENDS Integers, Sequences, FiniteSets, TLC

\* ------------------------------------------------------------------ bounds
\* Largest deploy_time_s / retract_time_s of a configuration, in units.
MaxDur == 2
\* Largest dt_s handed to one tick call, in units.
MaxDt == 2

\* ------------------------------------------------------------------ types
\* class GearState(Enum): the members, by their .name
GearState == {"UP_LOCKED", "TRANSITIONING_DOWN", "DOWN_LOCKED", "TRANSITIONING_UP"}

\* LandingGearController.__init__: the legs, in construction order
LegOrder == <<"nose", "left", "right">>
LegNames == {LegOrder[i] : i \in 1..Len(LegOrder)}

\* direction strings handed to command: the two the code knows and one it does not
Directions == {"DOWN", "UP", "SIDEWAYS"}

\* Optional[List[str]]: None, or a list used only through `in` and truthiness
None == [isNone |-> TRUE, items |-> {}]
Some(S) == [isNone |-> FALSE, items |-> S]
AllowLists == {None} \cup {Some(S) : S \in SUBSET GearState}

Durations == 1..MaxDur
TickSteps == 0..MaxDt

\* Config(): timings and interlocks (the logging level plays no part in the core)
DefaultInterlocks == [allow_down_from |-> Some({"UP_LOCKED"}),
                      allow_up_from |-> Some({"DOWN_LOCKED"})]
Configs == [timings : [deploy_time_s : Durations, retract_time_s : Durations],
            interlocks : [allow_down_from : AllowLists, allow_up_from : AllowLists]]

VARIABLES
    config,    \* LandingGearController.config (frozen at construction)
    legs,      \* LandingGearController.legs: leg name -> GearLeg fields
    call,      \* the most recent call and its arguments
    before,    \* legs as they were when that call started
    ok,        \* leg name -> return value of GearLeg.command in that call
    log,       \* the events log_leg emitted during that call, in order
    elapsed,   \* leg name -> sum of dt_s ticked on the leg during its current
               \* (or last) transition, i.e. since its last accepted command
    raw,       \* load_config: the parsed content of the configuration file
    loaded     \* load_config: its outcome, once it has run

vars == <<config, legs, call, before, ok, log, elapsed, raw, loaded>>

\* ------------------------------------------------------------------ GearLeg
\* GearLeg(name, deploy_time_s, retract_time_s): state UP_LOCKED, timer_s 0.0
GearLeg(deploy, retract) ==
    [deploy_time_s |-> deploy, retract_time_s |-> retract,
     state |-> "UP_LOCKED", timer_s |-> 0]

uplock_sensor(leg) == leg.state = "UP_LOCKED"
downlock_sensor(leg) == leg.state = "DOWN_LOCKED"
\* in_transit_sensor that forgets the second transitioning state
in_transit_sensor_DownOnly(leg) == leg.state = "TRANSITIONING_DOWN"
in_transit_sensor(leg) == leg.state \in {"TRANSITIONING_DOWN", "TRANSITIONING_UP"}

\* command that starts a transition without resetting timer_s
GearLeg_command_KeepTimer(leg, direction, allow_from) ==
    IF leg.state \notin allow_from
    THEN [leg |-> leg, ok |-> FALSE]
    ELSE IF direction = "DOWN"
    THEN [leg |-> [leg EXCEPT !.state = "TRANSITIONING_DOWN"], ok |-> TRUE]
    ELSE IF direction = "UP"
    THEN [leg |-> [leg EXCEPT !.state = "TRANSITIONING_UP"], ok |-> TRUE]
    ELSE [leg |-> leg, ok |-> FALSE]

\* command that never looks at allow_from
GearLeg_command_NoGuard(leg, direction, allow_from) ==
    IF direction = "DOWN"
    THEN [leg |-> [leg EXCEPT !.state = "TRANSITIONING_DOWN", !.timer_s = 0], ok |-> TRUE]
    ELSE IF direction = "UP"
    THEN [leg |-> [leg EXCEPT !.state = "TRANSITIONING_UP", !.timer_s = 0], ok |-> TRUE]
    ELSE [leg |-> leg, ok |-> FALSE]

\* command whose guard is inverted (`in` for `not in`)
GearLeg_command_GuardInverted(leg, direction, allow_from) ==
    IF leg.state \in allow_from
    THEN [leg |-> leg, ok |-> FALSE]
    ELSE IF direction = "DOWN"
    THEN [leg |-> [leg EXCEPT !.state = "TRANSITIONING_DOWN", !.timer_s = 0], ok |-> TRUE]
    ELSE IF direction = "UP"
    THEN [leg |-> [leg EXCEPT !.state = "TRANSITIONING_UP", !.timer_s = 0], ok |-> TRUE]
    ELSE [leg |-> leg, ok |-> FALSE]

\* command that reports success for DOWN but leaves the leg where it was
GearLeg_command_NoStart(leg, direction, allow_from) ==
    IF leg.state \notin allow_from
    THEN [leg |-> leg, ok |-> FALSE]
    ELSE IF direction = "DOWN"
    THEN [leg |-> [leg EXCEPT !.timer_s = 0], ok |-> TRUE]
    ELSE IF direction = "UP"
    THEN [leg |-> [leg EXCEPT !.state = "TRANSITIONING_UP", !.timer_s = 0], ok |-> TRUE]
    ELSE [leg |-> leg, ok |-> FALSE]

\* command that takes every direction other than "DOWN" for "UP"
GearLeg_command_ElseUp(leg, direction, allow_from) ==
    IF leg.state \notin allow_from
    THEN [leg |-> leg, ok |-> FALSE]
    ELSE IF direction = "DOWN"
    THEN [leg |-> [leg EXCEPT !.state = "TRANSITIONING_DOWN", !.timer_s = 0], ok |-> TRUE]
    ELSE [leg |-> [leg EXCEPT !.state = "TRANSITIONING_UP", !.timer_s = 0], ok |-> TRUE]

\* GearLeg.command(direction, allow_from): the leg afterwards and the return value.
\* allow_from is the list the caller resolved (a set of state names).
GearLeg_command(leg, direction, allow_from) ==
    IF leg.state \notin allow_from
    THEN [leg |-> leg, ok |-> FALSE]
    ELSE IF direction = "DOWN"
    THEN [leg |-> [leg EXCEPT !.state = "TRANSITIONING_DOWN", !.timer_s = 0], ok |-> TRUE]
    ELSE IF direction = "UP"
    THEN [leg |-> [leg EXCEPT !.state = "TRANSITIONING_UP", !.timer_s = 0], ok |-> TRUE]
    ELSE [leg |-> leg, ok |-> FALSE]

\* tick that completes only once the timer has passed the duration (`>` for `>=`)
GearLeg_tick_Strict(leg, dt_s) ==
    IF leg.state = "TRANSITIONING_DOWN"
    THEN LET t == leg.timer_s + dt_s
         IN  IF t > leg.deploy_time_s
             THEN [leg EXCEPT !.timer_s = t, !.state = "DOWN_LOCKED"]
             ELSE [leg EXCEPT !.timer_s = t]
    ELSE IF leg.state = "TRANSITIONING_UP"
    THEN LET t == leg.timer_s + dt_s
         IN  IF t > leg.retract_time_s
             THEN [leg EXCEPT !.timer_s = t, !.state = "UP_LOCKED"]
             ELSE [leg EXCEPT !.timer_s = t]
    ELSE leg

\* tick that completes a transition at once, whatever the timer says
GearLeg_tick_Instant(leg, dt_s) ==
    IF leg.state = "TRANSITIONING_DOWN"
    THEN [leg EXCEPT !.timer_s = @ + dt_s, !.state = "DOWN_LOCKED"]
    ELSE IF leg.state = "TRANSITIONING_UP"
    THEN [leg EXCEPT !.timer_s = @ + dt_s, !.state = "UP_LOCKED"]
    ELSE leg

\* tick whose second branch was copied from the first (retraction ends DOWN_LOCKED)
GearLeg_tick_CopiedBranch(leg, dt_s) ==
    IF leg.state = "TRANSITIONING_DOWN"
    THEN LET t == leg.timer_s + dt_s
         IN  IF t >= leg.deploy_time_s
             THEN [leg EXCEPT !.timer_s = t, !.state = "DOWN_LOCKED"]
             ELSE [leg EXCEPT !.timer_s = t]
    ELSE IF leg.state = "TRANSITIONING_UP"
    THEN LET t == leg.timer_s + dt_s
         IN  IF t >= leg.retract_time_s
             THEN [leg EXCEPT !.timer_s = t, !.state = "DOWN_LOCKED"]
             ELSE [leg EXCEPT !.timer_s = t]
    ELSE leg

\* tick that counts time on a locked leg too
GearLeg_tick_AlwaysCounts(leg, dt_s) ==
    IF leg.state = "TRANSITIONING_DOWN"
    THEN LET t == leg.timer_s + dt_s
         IN  IF t >= leg.deploy_time_s
             THEN [leg EXCEPT !.timer_s = t, !.state = "DOWN_LOCKED"]
             ELSE [leg EXCEPT !.timer_s = t]
    ELSE IF leg.state = "TRANSITIONING_UP"
    THEN LET t == leg.timer_s + dt_s
         IN  IF t >= leg.retract_time_s
             THEN [leg EXCEPT !.timer_s = t, !.state = "UP_LOCKED"]
             ELSE [leg EXCEPT !.timer_s = t]
    ELSE [leg EXCEPT !.timer_s = leg.timer_s + dt_s]

\* GearLeg.tick(dt_s): the leg afterwards
GearLeg_tick(leg, dt_s) ==
    IF leg.state = "TRANSITIONING_DOWN"
    THEN LET t == leg.timer_s + dt_s
         IN  IF t >= leg.deploy_time_s
             THEN [leg EXCEPT !.timer_s = t, !.state = "DOWN_LOCKED"]
             ELSE [leg EXCEPT !.timer_s = t]
    ELSE IF leg.state = "TRANSITIONING_UP"
    THEN LET t == leg.timer_s + dt_s
         IN  IF t >= leg.retract_time_s
             THEN [leg EXCEPT !.timer_s = t, !.state = "UP_LOCKED"]
             ELSE [leg EXCEPT !.timer_s = t]
    ELSE leg

\* ------------------------------------------------------------------ controller
\* LandingGearController.log_leg(leg, msg): the event handed to the logger
log_leg(name, leg, msg) ==
    [leg |-> name, msg |-> msg, state |-> leg.state,
     uplock |-> uplock_sensor(leg), downlock |-> downlock_sensor(leg),
     transit |-> in_transit_sensor(leg)]

\* command_all falling back to the default list of the direction, not to []
ResolveAllowFrom_DefaultList(interlocks, direction) ==
    LET allow_from == IF direction = "DOWN" THEN interlocks.allow_down_from
                      ELSE interlocks.allow_up_from
    IN  IF allow_from.isNone \/ allow_from.items = {}
        THEN (IF direction = "DOWN" THEN {"UP_LOCKED"} ELSE {"DOWN_LOCKED"})
        ELSE allow_from.items

\* command_all, lines 145-147: the allow-list resolved for a direction
ResolveAllowFrom(interlocks, direction) ==
    LET allow_from == IF direction = "DOWN" THEN interlocks.allow_down_from
                      ELSE interlocks.allow_up_from
    IN  IF allow_from.isNone \/ allow_from.items = {} THEN {} ELSE allow_from.items

\* command_all, lines 149-151: one iteration of `for leg in self.legs`, on the
\* loop state acc = [legs, ok, log]
CommandAllStep(acc, name, direction, allow_from) ==
    LET r == GearLeg_command(acc.legs[name], direction, allow_from)
    IN  [legs |-> [acc.legs EXCEPT ![name] = r.leg],
         ok |-> [acc.ok EXCEPT ![name] = r.ok],
         log |-> Append(acc.log,
                        log_leg(name, r.leg,
                                <<direction, IF r.ok THEN "command accepted"
                                             ELSE "command rejected">>))]

\* the loop of command_all leaving at the first leg that rejects
RECURSIVE CommandAllLoop_StopOnReject(_, _, _, _)
CommandAllLoop_StopOnReject(acc, i, direction, allow_from) ==
    IF i > Len(LegOrder) THEN acc
    ELSE LET next == CommandAllStep(acc, LegOrder[i], direction, allow_from)
         IN  IF next.ok[LegOrder[i]]
             THEN CommandAllLoop_StopOnReject(next, i + 1, direction, allow_from)
             ELSE next

RECURSIVE CommandAllLoop(_, _, _, _)
CommandAllLoop(acc, i, direction, allow_from) ==
    IF i > Len(LegOrder) THEN acc
    ELSE CommandAllLoop(CommandAllStep(acc, LegOrder[i], direction, allow_from),
                        i + 1, direction, allow_from)

\* LandingGearController.command_all(direction): legs, return values and log afterwards
command_all(ls, interlocks, direction) ==
    CommandAllLoop([legs |-> ls, ok |-> [l \in LegNames |-> FALSE], log |-> <<>>],
                   1, direction, ResolveAllowFrom(interlocks, direction))

\* one iteration of the controller's tick that logs the leg whether it changed or not
TickStep_LogsEveryLeg(acc, name, dt_s) ==
    LET b == acc.legs[name]
        a == GearLeg_tick(b, dt_s)
    IN  [legs |-> [acc.legs EXCEPT ![name] = a],
         log |-> Append(acc.log,
                        log_leg(name, a, <<"Transition complete", b.state, a.state>>))]

\* LandingGearController.tick, lines 156-159: one iteration of `for leg in self.legs`
TickStep(acc, name, dt_s) ==
    LET b == acc.legs[name]
        a == GearLeg_tick(b, dt_s)
    IN  [legs |-> [acc.legs EXCEPT ![name] = a],
         log |-> IF a.state # b.state
                 THEN Append(acc.log,
                             log_leg(name, a, <<"Transition complete", b.state, a.state>>))
                 ELSE acc.log]

\* the loop of the controller's tick leaving out the last leg
RECURSIVE TickLoop_SkipsLast(_, _, _)
TickLoop_SkipsLast(acc, i, dt_s) ==
    IF i >= Len(LegOrder) THEN acc
    ELSE TickLoop_SkipsLast(TickStep(acc, LegOrder[i], dt_s), i + 1, dt_s)

RECURSIVE TickLoop(_, _, _)
TickLoop(acc, i, dt_s) ==
    IF i > Len(LegOrder) THEN acc
    ELSE \* the rest of the loop, run on the value this iteration leaves
         CHOOSE r \in {TickLoop(next, i + 1, dt_s) :
                          next \in {TickStep(acc, LegOrder[i], dt_s)}} : TRUE

\* LandingGearController.tick(dt_s): legs and log afterwards
controller_tick(ls, dt_s) == TickLoop([legs |-> ls, log |-> <<>>], 1, dt_s)

\* ------------------------------------------------------------------ load_config
\* units in one second (the cockpit loop steps 0.5 s at a time)
UnitsPerSecond == 2
\* TimingsConfig defaults: 2.5 s
DefaultTime == 5

\* JSON values as json.load returns them; Missing stands for an absent key
Missing == [kind |-> "missing"]
JNull == [kind |-> "null"]
JBool(b) == [kind |-> "bool", bool |-> b]
JNumber(n) == [kind |-> "number", num |-> n]
JString(t) == [kind |-> "string", text |-> t]
JList(S) == [kind |-> "list", items |-> S]
JObject(f) == [kind |-> "object", fields |-> f]

\* the strings float() parses, with their value in units
Numerals == [t \in {"1.0"} |-> UnitsPerSecond]

\* dict.get(key, default) on a dict
Get(obj, key, default) ==
    IF key \in DOMAIN obj.fields /\ obj.fields[key].kind # "missing"
    THEN obj.fields[key] ELSE default

\* float(v): the value in units, or the exception it raises
float(v) ==
    CASE v.kind = "number" -> [raised |-> "none", val |-> v.num]
      [] v.kind = "bool" -> [raised |-> "none", val |-> IF v.bool THEN UnitsPerSecond ELSE 0]
      [] v.kind = "string" ->
            IF v.text \in DOMAIN Numerals
            THEN [raised |-> "none", val |-> Numerals[v.text]]
            ELSE [raised |-> "ValueError", val |-> 0]
      [] OTHER -> [raised |-> "TypeError", val |-> 0]

\* lines 39-49: float(timings_raw.get(key, 2.5)) inside try/except (TypeError,
\* ValueError); an object without .get raises AttributeError, which is not caught
LoadTime(timings_raw, key) ==
    IF timings_raw.kind # "object" THEN [raised |-> "AttributeError", val |-> 0]
    ELSE LET f == float(Get(timings_raw, key, JNumber(DefaultTime)))
         IN  IF f.raised \in {"TypeError", "ValueError"}
             THEN [raised |-> "none", val |-> DefaultTime]
             ELSE f

\* lines 55-64: interlocks_raw.get(key, default), replaced by the default unless a list
LoadAllowFrom(interlocks_raw, key, default) ==
    IF interlocks_raw.kind # "object" THEN [raised |-> "AttributeError", val |-> None]
    ELSE LET v == Get(interlocks_raw, key, JList(default))
         IN  [raised |-> "none",
              val |-> IF v.kind = "list" THEN Some(v.items) ELSE Some(default)]

\* line 66: logging_raw.get("level", "INFO")
LoadLevel(logging_raw) ==
    IF logging_raw.kind # "object" THEN [raised |-> "AttributeError"]
    ELSE [raised |-> "none"]

NoConfig == [timings |-> [deploy_time_s |-> 0, retract_time_s |-> 0],
             interlocks |-> [allow_down_from |-> None, allow_up_from |-> None]]
Raised(e) == [raised |-> e, config |-> NoConfig]

\* load_config(path) on a file whose parsed content is file: the Config it returns,
\* or the exception that leaves it
load_config(file) ==
    LET timings_raw == Get(file, "timings", JObject(<<>>))
        interlocks_raw == Get(file, "interlocks", JObject(<<>>))
        logging_raw == Get(file, "logging", JObject(<<>>))
        deploy_time == LoadTime(timings_raw, "deploy_time_s")
        retract_time == LoadTime(timings_raw, "retract_time_s")
        allow_down_from == LoadAllowFrom(interlocks_raw, "allow_down_from", {"UP_LOCKED"})
        allow_up_from == LoadAllowFrom(interlocks_raw, "allow_up_from", {"DOWN_LOCKED"})
        level == LoadLevel(logging_raw)
    IN  IF deploy_time.raised # "none" THEN Raised(deploy_time.raised)
        ELSE IF retract_time.raised # "none" THEN Raised(retract_time.raised)
        ELSE IF allow_down_from.raised # "none" THEN Raised(allow_down_from.raised)
        ELSE IF allow_up_from.raised # "none" THEN Raised(allow_up_from.raised)
        ELSE IF level.raised # "none" THEN Raised(level.raised)
        ELSE [raised |-> "none",
              config |-> [timings |-> [deploy_time_s |-> deploy_time.val,
                                       retract_time_s |-> retract_time.val],
                          interlocks |-> [allow_down_from |-> allow_down_from.val,
                                          allow_up_from |-> allow_up_from.val]]]

\* no file read / load_config not run
NoFile == JObject(<<>>)
NotLoaded == Raised("not run")

\* ------------------------------------------------------------------ bookkeeping
\* call.repeat: this call is a command_all whose direction is that of the call right
\* before it, which was a command_all too (nothing was called in between)
NoCall == [op |-> "init", leg |-> "-", direction |-> "-", allow_from |-> {}, dt_s |-> 0,
           repeat |-> FALSE]

\* elapsed after a command on one leg: an accepted command starts a new transition
ElapsedAfterCommand(e, accepted) == IF accepted THEN 0 ELSE e
\* elapsed after a tick on one leg that was in state s when the tick started
ElapsedAfterTick(e, s, dt_s) ==
    IF s \in {"TRANSITIONING_DOWN", "TRANSITIONING_UP"} THEN e + dt_s ELSE e

\* ------------------------------------------------------------------ actions
\* LandingGearController(config): three legs built from config.timings
\* (the Config is handed over as a value; no file is read)
Construct(c) ==
    /\ raw = NoFile
    /\ loaded = NotLoaded
    /\ config = c
    /\ legs = [l \in LegNames |->
                  GearLeg(c.timings.deploy_time_s, c.timings.retract_time_s)]
    /\ call = NoCall
    /\ before = legs
    /\ ok = [l \in LegNames |-> FALSE]
    /\ log = <<>>
    /\ elapsed = [l \in LegNames |-> 0]

\* lgcs.legs[i].command(direction, allow_from), called on one leg directly
Command(l, direction, allow_from) ==
    LET r == GearLeg_command(legs[l], direction, allow_from)
    IN  /\ legs' = [legs EXCEPT ![l] = r.leg]
        /\ ok' = [x \in LegNames |-> x = l /\ r.ok]
        /\ call' = [op |-> "command", leg |-> l, direction |-> direction,
                    allow_from |-> allow_from, dt_s |-> 0, repeat |-> FALSE]
        /\ before' = legs
        /\ log' = <<>>
        /\ elapsed' = [elapsed EXCEPT ![l] = ElapsedAfterCommand(@, r.ok)]
        /\ UNCHANGED <<config, raw, loaded>>

\* lgcs.legs[i].tick(dt_s), called on one leg directly
Tick(l, dt_s) ==
    /\ legs' = [legs EXCEPT ![l] = GearLeg_tick(@, dt_s)]
    /\ ok' = [x \in LegNames |-> FALSE]
    /\ call' = [op |-> "tick", leg |-> l, direction |-> "-",
                allow_from |-> {}, dt_s |-> dt_s, repeat |-> FALSE]
    /\ before' = legs
    /\ log' = <<>>
    /\ elapsed' = [elapsed EXCEPT ![l] = ElapsedAfterTick(@, legs[l].state, dt_s)]
    /\ UNCHANGED <<config, raw, loaded>>

\* lgcs.command_all(direction)
CommandAll(direction) ==
    LET r == command_all(legs, config.interlocks, direction)
    IN  /\ legs' = r.legs
        /\ ok' = r.ok
        /\ log' = r.log
        /\ call' = [op |-> "command_all", leg |-> "-", direction |-> direction,
                    allow_from |-> ResolveAllowFrom(config.interlocks, direction),
                    dt_s |-> 0,
                    repeat |-> call.op = "command_all" /\ call.direction = direction]
        /\ before' = legs
        /\ elapsed' = [l \in LegNames |-> ElapsedAfterCommand(elapsed[l], r.ok[l])]
        /\ UNCHANGED <<config, raw, loaded>>

\* lgcs.tick(dt_s)
ControllerTick(dt_s) ==
    LET r == controller_tick(legs, dt_s)
    IN  /\ legs' = r.legs
        /\ log' = r.log
        /\ ok' = [x \in LegNames |-> FALSE]
        /\ call' = [op |-> "controller_tick", leg |-> "-", direction |-> "-",
                    allow_from |-> {}, dt_s |-> dt_s, repeat |-> FALSE]
        /\ before' = legs
        /\ elapsed' = [l \in LegNames |-> ElapsedAfterTick(elapsed[l], legs[l].state, dt_s)]
        /\ UNCHANGED <<config, raw, loaded>>

\* ------------------------------------------------------------------ specifications
\* The controller driven through command_all and tick only, under every timing and
\* every interlock policy.
Init == \E c \in Configs : Construct(c)
DoCommandAll == \E d \in Directions : CommandAll(d)
DoControllerTick == \E dt \in TickSteps : ControllerTick(dt)
Next == DoCommandAll \/ DoControllerTick
Spec == Init /\ [][Next]_vars

\* A controller with the default policy whose first leg is also driven directly, as
\* the test suite does with lgcs.legs[0]: GearLeg.command with any direction and any
\* allow-list, GearLeg.tick with any dt_s >= 0, next to the controller's own calls.
DefaultConfigs == {c \in Configs : c.interlocks = DefaultInterlocks}
InitLeg == \E c \in DefaultConfigs : Construct(c)
LegCommand == \E d \in Directions, A \in SUBSET GearState : Command(LegOrder[1], d, A)
LegTick == \E dt \in TickSteps : Tick(LegOrder[1], dt)
NextLeg == LegCommand \/ LegTick \/ DoCommandAll \/ DoControllerTick
SpecLeg == InitLeg /\ [][NextLeg]_vars

\* Every interlock policy with legs that fall out of step: the shortest timings (one
\* unit each), steps of 0 or 1 unit, any single leg ticked directly, and the first
\* leg commanded directly with the allow-list the policy gives for the direction.
MixedConfigs == {c \in Configs : c.timings.deploy_time_s = 1 /\ c.timings.retract_time_s = 1}
MixedSteps == 0..1
InitMixed == \E c \in MixedConfigs : Construct(c)
MixedLegTick == \E l \in LegNames, dt \in MixedSteps : Tick(l, dt)
MixedLegCommand ==
    \E d \in Directions : Command(LegOrder[1], d, ResolveAllowFrom(config.interlocks, d))
MixedControllerTick == \E dt \in MixedSteps : ControllerTick(dt)
NextMixed == DoCommandAll \/ MixedControllerTick \/ MixedLegTick \/ MixedLegCommand
SpecMixed == InitMixed /\ [][NextMixed]_vars

\* load_config run on configuration files: each of the entries timings, interlocks
\* and logging is absent, an object whose fields are absent or hold a value of some
\* JSON type, or a value that is not an object.
TimeValues == {Missing, JNull, JBool(TRUE), JNumber(1), JNumber(MaxDur),
               JString("1.0"), JString("abc"), JList({})}
ListValues == {Missing, JNull, JString("UP_LOCKED"), JList({}), JList({"UP_LOCKED"}),
               JList({"DOWN_LOCKED", "TRANSITIONING_UP"})}
NonObjects == {JNull, JNumber(1), JString("abc"), JList({})}
TimingsEntries ==
    {Missing} \cup NonObjects
        \cup {JObject(f) : f \in [{"deploy_time_s", "retract_time_s"} -> TimeValues]}
InterlocksEntries ==
    {Missing} \cup NonObjects
        \cup {JObject(f) : f \in [{"allow_down_from", "allow_up_from"} -> ListValues]}
LoggingEntries == {Missing, JObject([level |-> JString("DEBUG")]), JNumber(1)}
Files == {JObject([timings |-> t, interlocks |-> i, logging |-> g]) :
             t \in TimingsEntries, i \in InterlocksEntries, g \in LoggingEntries}

InitLoad ==
    /\ raw \in Files
    /\ loaded = NotLoaded
    /\ config = [timings |-> [deploy_time_s |-> 1, retract_time_s |-> 1],
                 interlocks |-> DefaultInterlocks]
    /\ legs = [l \in LegNames |-> GearLeg(1, 1)]
    /\ call = NoCall
    /\ before = legs
    /\ ok = [l \in LegNames |-> FALSE]
    /\ log = <<>>
    /\ elapsed = [l \in LegNames |-> 0]
\* config = load_config(path)
LoadConfig ==
    /\ loaded = NotLoaded
    /\ loaded' = load_config(raw)
    /\ UNCHANGED <<config, legs, call, before, ok, log, elapsed, raw>>
NextLoad == LoadConfig
SpecLoad == InitLoad /\ [][NextLoad]_vars

\* The cockpit loop under the default policy: every pass may call command_all and
\* always calls lgcs.tick with its fixed step, so that tick is taken again and again
\* (weak fairness); other ticks, of the controller or of the first leg, may come in
\* between.
CockpitStep == 1
NextLive == DoCommandAll \/ DoControllerTick \/ LegTick
SpecLive == InitLeg /\ [][NextLive]_vars /\ WF_vars(ControllerTick(CockpitStep))

\* ------------------------------------------------------------------ properties
Locked == {"UP_LOCKED", "DOWN_LOCKED"}
Transitioning == {"TRANSITIONING_DOWN", "TRANSITIONING_UP"}
CommandOps == {"command", "command_all"}
TickOps == {"tick", "controller_tick"}
\* the legs the most recent call was made on
Called == IF call.op \in {"command", "tick"} THEN {call.leg}
          ELSE IF call.op = "init" THEN {} ELSE LegNames
\* the number of TRUE values among three booleans
CountTrue(a, b, c) == Cardinality({i \in 1..3 : <<a, b, c>>[i]})

\* C1: for every leg, in every reachable state, exactly one of uplock_sensor,
\* downlock_sensor and in_transit_sensor is true.
ExactlyOneSensor ==
    \A l \in LegNames :
        CountTrue(uplock_sensor(legs[l]), downlock_sensor(legs[l]),
                  in_transit_sensor(legs[l])) = 1

\* a leg retracting after a direct UP command, only its transit sensor true
WitnessExactlyOneSensor ==
    /\ call.op = "tick"
    /\ legs[call.leg].state = "TRANSITIONING_UP"
    /\ in_transit_sensor(legs[call.leg])
    /\ ~uplock_sensor(legs[call.leg])
    /\ ~downlock_sensor(legs[call.leg])

\* C2: no leg reaches a locked target early. A command never leaves the leg it
\* changed in DOWN_LOCKED or UP_LOCKED, an accepted DOWN (UP) leaves it in
\* TRANSITIONING_DOWN (TRANSITIONING_UP), and a tick on a leg in TRANSITIONING_DOWN
\* (TRANSITIONING_UP) leaves it there as long as the dt_s ticked since its accepted
\* command sum to less than deploy_time_s (retract_time_s).
NeverLockedEarly ==
    \A l \in Called :
        /\ call.op \in CommandOps /\ legs[l] # before[l] => legs[l].state \in Transitioning
        /\ call.op \in CommandOps /\ ok[l] /\ call.direction = "DOWN"
              => legs[l].state = "TRANSITIONING_DOWN" /\ elapsed[l] = 0
        /\ call.op \in CommandOps /\ ok[l] /\ call.direction = "UP"
              => legs[l].state = "TRANSITIONING_UP" /\ elapsed[l] = 0
        /\ call.op \in TickOps /\ before[l].state = "TRANSITIONING_DOWN"
              /\ elapsed[l] < legs[l].deploy_time_s
              => legs[l].state = "TRANSITIONING_DOWN"
        /\ call.op \in TickOps /\ before[l].state = "TRANSITIONING_UP"
              /\ elapsed[l] < legs[l].retract_time_s
              => legs[l].state = "TRANSITIONING_UP"

\* a positive tick that leaves a deploying leg short of deploy_time_s, still in transit
WitnessNeverLockedEarly ==
    /\ call.op = "tick"
    /\ call.dt_s > 0
    /\ before[call.leg].state = "TRANSITIONING_DOWN"
    /\ elapsed[call.leg] < legs[call.leg].deploy_time_s
    /\ legs[call.leg].state = "TRANSITIONING_DOWN"

\* C3, as claimed: command("DOWN", A) is rejected and changes nothing whenever the
\* leg is in a state other than UP_LOCKED or its state's name is not in A.
DownRejectedUnlessUpLocked ==
    call.op = "command" /\ call.direction = "DOWN"
        /\ (before[call.leg].state # "UP_LOCKED"
            \/ before[call.leg].state \notin call.allow_from)
    => ~ok[call.leg] /\ legs[call.leg] = before[call.leg]

\* C3, amended: command("DOWN", A) is rejected and changes neither state nor timer
\* whenever the leg's state name is not in A; with the name in A it is accepted
\* from every state, UP_LOCKED or not.
DownRejectedIffNotAllowed ==
    call.op = "command" /\ call.direction = "DOWN"
    => /\ before[call.leg].state \notin call.allow_from
            => ~ok[call.leg] /\ legs[call.leg] = before[call.leg]
       /\ before[call.leg].state \in call.allow_from
            => ok[call.leg] /\ legs[call.leg].state = "TRANSITIONING_DOWN"

\* DOWN rejected on an UP_LOCKED leg because the allow-list leaves UP_LOCKED out
WitnessDownRejected ==
    /\ call.op = "command" /\ call.direction = "DOWN"
    /\ before[call.leg].state = "UP_LOCKED"
    /\ call.allow_from # {}
    /\ "UP_LOCKED" \notin call.allow_from
    /\ ~ok[call.leg]
    /\ legs[call.leg] = before[call.leg]

\* C5: command("DOWN", A) on a leg in UP_LOCKED with "UP_LOCKED" in A returns True,
\* sets the state to TRANSITIONING_DOWN (in_transit_sensor true) and the timer to 0,
\* whatever the timer was.
DownAcceptedFromUpLocked ==
    call.op = "command" /\ call.direction = "DOWN"
        /\ before[call.leg].state = "UP_LOCKED" /\ "UP_LOCKED" \in call.allow_from
    => /\ ok[call.leg]
       /\ legs[call.leg].state = "TRANSITIONING_DOWN"
       /\ in_transit_sensor(legs[call.leg])
       /\ legs[call.leg].timer_s = 0

\* DOWN accepted on an UP_LOCKED leg whose timer still held an earlier retraction
WitnessDownAccepted ==
    /\ call.op = "command" /\ call.direction = "DOWN"
    /\ before[call.leg].state = "UP_LOCKED"
    /\ before[call.leg].timer_s > 0
    /\ "UP_LOCKED" \in call.allow_from
    /\ ok[call.leg]
    /\ legs[call.leg].timer_s = 0

\* C6: a tick after which the accumulated timer of a leg in TRANSITIONING_DOWN
\* (TRANSITIONING_UP) is >= deploy_time_s (retract_time_s) leaves the leg in
\* DOWN_LOCKED with downlock_sensor true (UP_LOCKED with uplock_sensor true) in
\* that same call, also when one dt_s overshoots the duration.
TickCompletesInSameCall ==
    \A l \in Called :
        call.op \in TickOps =>
            /\ before[l].state = "TRANSITIONING_DOWN"
                  /\ before[l].timer_s + call.dt_s >= before[l].deploy_time_s
               => legs[l].state = "DOWN_LOCKED" /\ downlock_sensor(legs[l])
            /\ before[l].state = "TRANSITIONING_UP"
                  /\ before[l].timer_s + call.dt_s >= before[l].retract_time_s
               => legs[l].state = "UP_LOCKED" /\ uplock_sensor(legs[l])

\* one tick whose dt_s alone exceeds deploy_time_s locks the leg down
WitnessTickCompletes ==
    /\ call.op = "tick"
    /\ before[call.leg].state = "TRANSITIONING_DOWN"
    /\ before[call.leg].timer_s = 0
    /\ call.dt_s > before[call.leg].deploy_time_s
    /\ legs[call.leg].state = "DOWN_LOCKED"
    /\ downlock_sensor(legs[call.leg])

\* C4, as claimed: under every policy a command or command_all issued while a leg
\* is in TRANSITIONING_DOWN or TRANSITIONING_UP is rejected for that leg and leaves
\* its state and timer unchanged.
MidTransitionAlwaysRejected ==
    \A l \in Called :
        call.op \in CommandOps /\ before[l].state \in Transitioning
        => ~ok[l] /\ legs[l] = before[l]

\* neither allow-list of the policy names a transitioning state
PolicyNamesNoTransit ==
    /\ config.interlocks.allow_down_from.items \cap Transitioning = {}
    /\ config.interlocks.allow_up_from.items \cap Transitioning = {}

\* C4, amended: a command or command_all issued while a leg is in
\* TRANSITIONING_DOWN or TRANSITIONING_UP is rejected for that leg, leaving its
\* state and timer unchanged, whenever the allow-list of the direction does not
\* name that state; under a policy whose allow-lists name no transitioning state
\* (the default policy among them) a started transition ends only by a tick.
MidTransitionRejectedUnlessListed ==
    \A l \in LegNames :
        /\ l \in Called /\ call.op \in CommandOps
              /\ before[l].state \in Transitioning
              /\ before[l].state \notin call.allow_from
           => ~ok[l] /\ legs[l] = before[l]
        /\ PolicyNamesNoTransit /\ before[l].state \in Transitioning
              /\ legs[l] # before[l]
           => call.op \in TickOps

\* a command_all that a leg in transit rejects while a locked sibling accepts it
WitnessMidTransitionRejected ==
    /\ call.op = "command_all"
    /\ PolicyNamesNoTransit
    /\ \E l, m \in LegNames :
          /\ before[l].state \in Transitioning
          /\ ~ok[l]
          /\ legs[l] = before[l]
          /\ ok[m]

\* C7: under the default policy a command_all(d) that directly follows a
\* command_all(d) of the same direction is rejected by every leg and leaves every
\* leg's state and timer as the first call left them.
SecondCommandAllRejected ==
    config.interlocks = DefaultInterlocks /\ call.op = "command_all" /\ call.repeat
    => /\ \A l \in LegNames : ~ok[l]
       /\ legs = before

\* the second of two command_all("DOWN"): all legs still deploying, timers at 0
WitnessSecondCommandAll ==
    /\ config.interlocks = DefaultInterlocks
    /\ call.op = "command_all" /\ call.direction = "DOWN" /\ call.repeat
    /\ \A l \in LegNames :
          /\ ~ok[l]
          /\ legs[l].state = "TRANSITIONING_DOWN"
          /\ legs[l].timer_s = 0

\* C8: after command_all(direction), under every policy and for legs in any mix of
\* states, each leg's return value, state and timer are what GearLeg.command with
\* the resolved allow-list gives on that leg alone.
PerLegIndependence ==
    call.op = "command_all" =>
        \A l \in LegNames :
            LET alone == GearLeg_command(before[l], call.direction,
                                         ResolveAllowFrom(config.interlocks, call.direction))
            IN  ok[l] = alone.ok /\ legs[l] = alone.leg

\* nose and right reject, left (in another state) accepts, in one command_all
WitnessPerLegIndependence ==
    /\ call.op = "command_all"
    /\ ~ok[LegOrder[1]]
    /\ ok[LegOrder[2]]
    /\ ~ok[LegOrder[3]]
    /\ before[LegOrder[2]].state # before[LegOrder[1]].state
    /\ legs[LegOrder[2]].state # before[LegOrder[2]].state
    /\ legs[LegOrder[1]] = before[LegOrder[1]]
    /\ legs[LegOrder[3]] = before[LegOrder[3]]

\* the four edges of the round trip
RoundTripEdges ==
    {<<"UP_LOCKED", "TRANSITIONING_DOWN">>, <<"TRANSITIONING_DOWN", "DOWN_LOCKED">>,
     <<"DOWN_LOCKED", "TRANSITIONING_UP">>, <<"TRANSITIONING_UP", "UP_LOCKED">>}

\* C9: round trip under the default policy. From UP_LOCKED, DOWN starts
\* TRANSITIONING_DOWN with the timer at 0; ticks lock the leg down exactly when their
\* dt_s since the command sum to deploy_time_s; from DOWN_LOCKED, UP starts
\* TRANSITIONING_UP with the timer at 0; ticks lock the leg up exactly when their
\* dt_s sum to retract_time_s; and no leg changes state along any other edge.
RoundTrip ==
    config.interlocks = DefaultInterlocks =>
        \A l \in LegNames :
            /\ call.op = "command_all" /\ call.direction = "DOWN"
                  /\ before[l].state = "UP_LOCKED"
               => ok[l] /\ legs[l].state = "TRANSITIONING_DOWN" /\ legs[l].timer_s = 0
            /\ call.op = "controller_tick" /\ before[l].state = "TRANSITIONING_DOWN"
               => legs[l].state = IF elapsed[l] >= legs[l].deploy_time_s
                                  THEN "DOWN_LOCKED" ELSE "TRANSITIONING_DOWN"
            /\ call.op = "command_all" /\ call.direction = "UP"
                  /\ before[l].state = "DOWN_LOCKED"
               => ok[l] /\ legs[l].state = "TRANSITIONING_UP" /\ legs[l].timer_s = 0
            /\ call.op = "controller_tick" /\ before[l].state = "TRANSITIONING_UP"
               => legs[l].state = IF elapsed[l] >= legs[l].retract_time_s
                                  THEN "UP_LOCKED" ELSE "TRANSITIONING_UP"
            /\ legs[l].state # before[l].state
               => <<before[l].state, legs[l].state>> \in RoundTripEdges

\* the tick that ends a round trip: every leg back in UP_LOCKED after a retraction
\* that took more than this one tick
WitnessRoundTrip ==
    /\ config.interlocks = DefaultInterlocks
    /\ call.op = "controller_tick"
    /\ call.dt_s > 0
    /\ \A l \in LegNames :
          /\ before[l].state = "TRANSITIONING_UP"
          /\ before[l].timer_s > 0
          /\ legs[l].state = "UP_LOCKED"
          /\ elapsed[l] >= legs[l].retract_time_s

\* C10: tick(0) changes nothing: after GearLeg.tick(0) or
\* LandingGearController.tick(0) every leg has the state and timer it had before.
TickZeroChangesNothing ==
    call.op \in TickOps /\ call.dt_s = 0 => legs = before

\* LandingGearController.tick(0) with the nose part-way through a transition
WitnessTickZero ==
    /\ call.op = "controller_tick"
    /\ call.dt_s = 0
    /\ legs[LegOrder[1]].state \in Transitioning
    /\ legs[LegOrder[1]].timer_s > 0
    /\ legs[LegOrder[1]].state # legs[LegOrder[2]].state
    /\ legs = before

\* the allow-list the policy holds for a direction, as command_all picks it
PolicyList(direction) ==
    IF direction = "DOWN" THEN config.interlocks.allow_down_from
    ELSE config.interlocks.allow_up_from

\* C11: when the policy's allow-list of a direction is None or empty, command_all
\* of that direction is rejected by every leg, whatever state each leg is in, and
\* no leg's state or timer changes.
OmittedListRejectsAll ==
    call.op = "command_all" /\ call.direction \in {"DOWN", "UP"}
        /\ (PolicyList(call.direction).isNone \/ PolicyList(call.direction).items = {})
    => /\ call.allow_from = {}
       /\ \A l \in LegNames : ~ok[l]
       /\ legs = before

\* command_all("DOWN") under allow_down_from = None, rejected by a leg in UP_LOCKED
\* and by a leg in another state
WitnessOmittedList ==
    /\ call.op = "command_all" /\ call.direction = "DOWN"
    /\ config.interlocks.allow_down_from = None
    /\ \A l \in LegNames : ~ok[l]
    /\ \E l, m \in LegNames :
          before[l].state = "UP_LOCKED" /\ before[m].state # "UP_LOCKED"
    /\ legs = before

\* ---- C12
\* what float() accepts: a number, a boolean, a string holding a numeral
WellFormedTime(v) == float(v).raised = "none"
\* the value load_config is to give a timing field of the entry e
ExpectedTime(e, key) ==
    IF e.kind = "object" /\ WellFormedTime(Get(e, key, Missing))
    THEN float(Get(e, key, Missing)).val ELSE DefaultTime
\* the value load_config is to give an allow-list field of the entry e
ExpectedList(e, key, default) ==
    IF e.kind = "object" /\ Get(e, key, Missing).kind = "list"
    THEN Some(Get(e, key, Missing).items) ELSE Some(default)

\* C12: load_config never fails, whatever the timings and interlocks entries of the
\* file hold: it returns a Config in which every well-formed field has the file's
\* value and every missing or malformed field has its default.
LoadConfigNeverFails ==
    loaded # NotLoaded =>
        /\ loaded.raised = "none"
        /\ loaded.config.timings.deploy_time_s
              = ExpectedTime(raw.fields.timings, "deploy_time_s")
        /\ loaded.config.timings.retract_time_s
              = ExpectedTime(raw.fields.timings, "retract_time_s")
        /\ loaded.config.interlocks.allow_down_from
              = ExpectedList(raw.fields.interlocks, "allow_down_from", {"UP_LOCKED"})
        /\ loaded.config.interlocks.allow_up_from
              = ExpectedList(raw.fields.interlocks, "allow_up_from", {"DOWN_LOCKED"})

\* the same, for files whose entries are objects or absent
LoadConfigFallsBackOnObjects ==
    (\A k \in DOMAIN raw.fields : raw.fields[k].kind \in {"missing", "object"})
        => LoadConfigNeverFails

\* ---- C13
\* the call that moves a leg along each edge of the round trip
EdgeCause ==
    [e \in RoundTripEdges |->
        CASE e[1] = "UP_LOCKED" -> [op |-> "command_all", direction |-> "DOWN"]
          [] e[1] = "DOWN_LOCKED" -> [op |-> "command_all", direction |-> "UP"]
          [] OTHER -> [op |-> "controller_tick", direction |-> "-"]]

\* C13: under the default policy every state change of a leg made by command_all or
\* tick is one of four edges, each with its own cause: UP_LOCKED ->
\* TRANSITIONING_DOWN by command DOWN, TRANSITIONING_DOWN -> DOWN_LOCKED by tick,
\* DOWN_LOCKED -> TRANSITIONING_UP by command UP, TRANSITIONING_UP -> UP_LOCKED by
\* tick; a command never leaves a leg it changed locked and a tick never leaves a leg
\* it changed transitioning.
OnlyFourEdges ==
    config.interlocks = DefaultInterlocks =>
        \A l \in LegNames :
            legs[l].state # before[l].state =>
                LET e == <<before[l].state, legs[l].state>>
                IN  /\ e \in RoundTripEdges
                    /\ call.op = EdgeCause[e].op
                    /\ call.direction = EdgeCause[e].direction
                    /\ call.op \in CommandOps => legs[l].state \in Transitioning
                    /\ call.op \in TickOps => legs[l].state \in Locked

\* command_all("UP") taking every leg from DOWN_LOCKED to TRANSITIONING_UP
WitnessOnlyFourEdges ==
    /\ config.interlocks = DefaultInterlocks
    /\ call.op = "command_all"
    /\ call.direction = "UP"
    /\ \A l \in LegNames :
          before[l].state = "DOWN_LOCKED" /\ legs[l].state = "TRANSITIONING_UP"

\* ---- C14
\* C14: tick on a locked leg is a no-op: GearLeg.tick(dt_s) and the controller's
\* tick leave the state and the timer of every leg that was UP_LOCKED or DOWN_LOCKED
\* as they were, for every dt_s >= 0; and the timer of a transitioning leg holds
\* only the time ticked since its command was accepted, none from while it was locked.
TickOnLockedIsNoOp ==
    /\ call.op \in TickOps =>
          \A l \in Called : before[l].state \in Locked => legs[l] = before[l]
    /\ \A l \in LegNames : legs[l].state \in Transitioning => legs[l].timer_s = elapsed[l]

\* GearLeg.tick(dt_s) with dt_s > 0 on the nose leg, locked down with the timer its
\* deployment left behind
WitnessTickOnLocked ==
    /\ call.op = "tick"
    /\ call.dt_s > 0
    /\ before[call.leg].state = "DOWN_LOCKED"
    /\ before[call.leg].timer_s > 0
    /\ legs[call.leg] = before[call.leg]

\* ---- C15
\* the legs whose state the most recent call changed, in construction order
ChangedLegs == SelectSeq(LegOrder, LAMBDA n : legs[n].state # before[n].state)

\* C15: LandingGearController.tick(dt_s) ticks every leg exactly once and emits one
\* event for each leg whose state differs from its state before the call, naming
\* the state before and the state after, in construction order (nose, left, right);
\* a leg whose state did not change emits no event.
TickLogsChangedLegs ==
    call.op = "controller_tick" =>
        /\ \A l \in LegNames : legs[l] = GearLeg_tick(before[l], call.dt_s)
        /\ Len(log) = Len(ChangedLegs)
        /\ \A i \in 1..Len(log) :
              LET n == ChangedLegs[i]
              IN  /\ log[i].leg = n
                  /\ log[i].msg = <<"Transition complete", before[n].state, legs[n].state>>
                  /\ log[i].state = legs[n].state

\* a tick that completes the transitions of nose and right while left, already
\* locked, stays as it is: two events, nose first
WitnessTickLogs ==
    /\ call.op = "controller_tick"
    /\ Len(log) = 2
    /\ log[1].leg = LegOrder[1]
    /\ log[2].leg = LegOrder[3]
    /\ legs[LegOrder[2]] = before[LegOrder[2]]
    /\ before[LegOrder[1]].state \in Transitioning

\* ---- C16
\* C16: the timer of every leg is >= 0 in every reachable state, is exactly 0 right
\* after every accepted command, and is changed by nothing but an accepted command
\* or a tick taken while the leg is transitioning.
TimerDiscipline ==
    \A l \in LegNames :
        /\ legs[l].timer_s >= 0
        /\ call.op \in CommandOps /\ ok[l] => legs[l].timer_s = 0
        /\ legs[l].timer_s # before[l].timer_s =>
              \/ call.op \in CommandOps /\ ok[l]
              \/ call.op \in TickOps /\ l \in Called /\ before[l].state \in Transitioning

\* GearLeg.command("UP", ...) accepted on a leg whose timer still held the time of an
\* earlier transition
WitnessTimerDiscipline ==
    /\ call.op = "command"
    /\ call.direction = "UP"
    /\ ok[call.leg]
    /\ before[call.leg].timer_s > 0
    /\ legs[call.leg].timer_s = 0

\* ---- C17
\* C17: every started transition completes. Under the default policy, with the
\* controller's tick of a fixed dt_s > 0 taken again and again, every leg in
\* TRANSITIONING_DOWN eventually is DOWN_LOCKED and every leg in TRANSITIONING_UP
\* eventually is UP_LOCKED, whatever command_all calls come in between.
TransitionsComplete ==
    \A l \in LegNames :
        /\ (legs[l].state = "TRANSITIONING_DOWN") ~> (legs[l].state = "DOWN_LOCKED")
        /\ (legs[l].state = "TRANSITIONING_UP") ~> (legs[l].state = "UP_LOCKED")

\* the cockpit's tick locking every leg down at the end of a deployment that took
\* more than that one tick
WitnessTransitionsComplete ==
    /\ call.op = "controller_tick"
    /\ call.dt_s = CockpitStep
    /\ \A l \in LegNames :
          /\ before[l].state = "TRANSITIONING_DOWN"
          /\ before[l].timer_s > 0
          /\ legs[l].state = "DOWN_LOCKED"

\* ---- C18
\* C18: lock-step. Driven through command_all and the controller's tick only, under
\* every interlock policy, the three legs have the same state and the same timer
\* after every call, and every command_all is accepted by all legs or by none.
LockStep ==
    \A l, m \in LegNames :
        /\ legs[l].state = legs[m].state
        /\ legs[l].timer_s = legs[m].timer_s
        /\ ok[l] = ok[m]

\* command_all accepted by every leg in the middle of a transition, under a policy
\* that allows it
WitnessLockStep ==
    /\ call.op = "command_all"
    /\ \A l \in LegNames :
          /\ ok[l]
          /\ before[l].state \in Transitioning
          /\ before[l].timer_s > 0
          /\ legs[l].state # before[l].state

\* ---- C19
\* C19: a direction that is neither "DOWN" nor "UP" is rejected. GearLeg.command
\* with such a direction returns False and leaves state and timer as they were, in
\* every state and for every allow-list; command_all with such a direction hands
\* the legs the allow_up_from list, is rejected by every leg and changes no leg.
UnknownDirectionRejected ==
    call.op \in CommandOps /\ call.direction \notin {"DOWN", "UP"} =>
        /\ \A l \in LegNames : ~ok[l]
        /\ legs = before
        /\ call.op = "command_all" =>
              call.allow_from = config.interlocks.allow_up_from.items

\* command_all("SIDEWAYS") rejected by legs whose state is in the allow-list it
\* resolved, so that the direction alone rejects it
WitnessUnknownDirection ==
    /\ call.op = "command_all"
    /\ call.direction = "SIDEWAYS"
    /\ \A l \in LegNames : before[l].state \in call.allow_from /\ ~ok[l]
    /\ legs = before

====
